---- MODULE Spec2Model ----
(***************************************************************************)
(* A model of vtkio.py (vtkplotter): the two hand-written text parsers     *)
(* (neutral tetrahedral format, Gmsh), the Dolfin XML writer and reader,   *)
(* the file-name dispatch of loadFile / loadPoly / write, the Video frame  *)
(* recorder and the ProgressBar.                                           *)
(*                                                                         *)
(* Text is modelled as sequences of one-character strings, a line of a     *)
(* file as the sequence of its whitespace-separated tokens (the result of  *)
(* str.split()), so that int(), float(), str() and the `in` substring test *)
(* are computed, not assumed.                                              *)
(***************************************************************************)
EXTENDS Integers, Sequences, FiniteSets, TLC

(***************************************************************************)
(* Bounds of the model.                                                    *)
(***************************************************************************)
\* most vertex lines of a neutral file
MaxVerts == 2
\* most tetrahedron lines of a neutral file
MaxTets == 2
\* most node lines of a Gmsh file
MaxNodes == 3
\* most element lines of a Gmsh file
MaxElems == 2
\* most fragments a file name is put together from
MaxParts == 2
\* most entries of a directory listing
MaxDirFiles == 2
\* most frames one Video object lists
MaxFrames == 2
\* largest stop of a ProgressBar
MaxStop == 4

(***************************************************************************)
(* State. Each part of the module has its own variables; a specification   *)
(* runs one part and leaves the others idle.                               *)
(***************************************************************************)
VARIABLES
    \* convertNeutral2Xml, loadNeutral, loadXml
    neutralIn,     \* the mesh the input file was written from (test oracle)
    infile,        \* lines of the input file, each split into tokens
    npc,           \* "start", "converted", "loaded", "read", "crashed" (the
                   \* parser raised) or "indexerror" (a lookup raised)
    fdolf_coords,  \* coordinate list returned by convertNeutral2Xml
    idolf_tets,    \* tetrahedron list returned by convertNeutral2Xml
    outF,          \* the XML file written, a sequence of tags (<<>>: none)
    edgePoints,    \* per tetrahedron, the four points loadNeutral looked up
    xcoords,       \* coords extracted by loadXml
    xconn,         \* connectivity extracted by loadXml
    \* loadGmesh
    gmshIn,           \* the mesh the input file was written from (test oracle)
    gfile,            \* lines of the input file, each split into tokens
    gpc,              \* "start", "done" or "crashed"
    sourcePoints,     \* the points inserted, in order (point ids 0, 1, ...)
    sourceTriangles,  \* the point ids of each triangle inserted
    \* loadFile, loadDir, write
    filename,      \* the path passed in
    exists,        \* os.path.exists(filename)
    listing,       \* sorted(os.listdir(filename)) when it is a directory
    dpc,           \* "start" or "done"
    op,            \* the function called: "loadFile", "loadDir" or "write"
    called,        \* the loaders loadFile invoked, in order
    handed,        \* the toolkit readers and writers given a file, in order
    printed,       \* the messages printed, in order
    result,        \* what the call returned, or "exit"
    \* Video
    vpvid,         \* the png files of /tmp/vpvid: frame number -> image
    tmpxml,        \* /tmp/filename.xml: the file loadXml unpacked last
    video,         \* the Video objects
    shots,         \* screenshots taken so far; each is a new image
    vlast,         \* the last call: [obj, op]
    \* ProgressBar
    pb,            \* the ProgressBar object, a record of its attributes
    ppc,           \* "new", "ok" or "raised"
    plast          \* the last call: [op, counts]

nvars == <<neutralIn, infile, npc, fdolf_coords, idolf_tets, outF,
           edgePoints, xcoords, xconn>>

gvars == <<gmshIn, gfile, gpc, sourcePoints, sourceTriangles>>

dvars == <<filename, exists, listing, dpc, op, called, handed, printed, result>>

vvars == <<vpvid, tmpxml, video, shots, vlast>>

pvars == <<pb, ppc, plast>>

vars == <<nvars, gvars, dvars, vvars, pvars>>

(***************************************************************************)
(* Text: characters, int(), float(), str().                                *)
(***************************************************************************)
Digits == <<"0", "1", "2", "3", "4", "5", "6", "7", "8", "9">>

IsDigit(c) == \E d \in 1..10 : Digits[d] = c

DigitVal(c) == (CHOOSE d \in 1..10 : Digits[d] = c) - 1

RECURSIVE Zeros(_)
Zeros(n) == IF n <= 0 THEN <<>> ELSE <<"0">> \o Zeros(n - 1)

\* the value of a string of decimal digits
RECURSIVE NatOf(_)
NatOf(s) ==
    IF s = <<>> THEN 0
    ELSE NatOf(SubSeq(s, 1, Len(s) - 1)) * 10 + DigitVal(s[Len(s)])

\* str(n) for n >= 0
RECURSIVE NatStr(_)
NatStr(n) ==
    IF n < 10 THEN <<Digits[n + 1]>>
    ELSE NatStr(n \div 10) \o <<Digits[(n % 10) + 1]>>

Unsigned(tok) ==
    IF tok # <<>> /\ tok[1] \in {"-", "+"} THEN Tail(tok) ELSE tok

IsNegative(tok) == tok # <<>> /\ tok[1] = "-"

\* int(tok) raises ValueError unless tok is an optionally signed digit string
IntValid(tok) ==
    /\ Unsigned(tok) # <<>>
    /\ \A k \in 1..Len(Unsigned(tok)) : IsDigit(Unsigned(tok)[k])

\* int(tok)
IntOf(tok) ==
    IF IsNegative(tok) THEN 0 - NatOf(Unsigned(tok)) ELSE NatOf(Unsigned(tok))

\* str(n) of an int
IntStr(n) == IF n < 0 THEN <<"-">> \o NatStr(0 - n) ELSE NatStr(n)

\* pat occurs in s at position k
OccursAt(s, pat, k) ==
    /\ k + Len(pat) - 1 <= Len(s)
    /\ \A j \in 1..Len(pat) : s[k + j - 1] = pat[j]

\* `pat in s` of Python strings
Contains(s, pat) == \E k \in 1..(Len(s) - Len(pat) + 1) : OccursAt(s, pat, k)

(***************************************************************************)
(* A float is modelled by the decimal it denotes: neg, m, e stand for      *)
(* (-1)^neg * m * 10^e with m not divisible by 10 (m = 0 has e = 0). The   *)
(* model covers plain decimal tokens ("12", "-2.50", ".5") of few digits,  *)
(* for which the binary double and the decimal determine each other and    *)
(* str() prints in fixed notation.                                         *)
(***************************************************************************)
RECURSIVE Normalise(_, _, _)
Normalise(neg, m, e) ==
    IF m = 0 THEN [neg |-> neg, m |-> 0, e |-> 0]
    ELSE IF m % 10 = 0 THEN Normalise(neg, m \div 10, e + 1)
    ELSE [neg |-> neg, m |-> m, e |-> e]

DotAt(s) == IF \E k \in 1..Len(s) : s[k] = "."
            THEN CHOOSE k \in 1..Len(s) : s[k] = "."
            ELSE Len(s) + 1

IntPart(s) == SubSeq(s, 1, DotAt(s) - 1)

FracPart(s) == SubSeq(s, DotAt(s) + 1, Len(s))

\* float(tok) raises ValueError unless tok is [sign] digits [. digits]
FloatValid(tok) ==
    LET s == Unsigned(tok) IN
    /\ Len(IntPart(s)) + Len(FracPart(s)) >= 1
    /\ \A k \in 1..Len(IntPart(s)) : IsDigit(IntPart(s)[k])
    /\ \A k \in 1..Len(FracPart(s)) : IsDigit(FracPart(s)[k])

\* float(tok)
FloatOf(tok) ==
    LET s == Unsigned(tok) IN
    Normalise(IsNegative(tok), NatOf(IntPart(s) \o FracPart(s)),
              0 - Len(FracPart(s)))

\* "%d" % x instead of str(x): the fraction is lost
FloatStrTruncated(v) ==
    LET d == NatStr(v.m)
        whole == IF v.e >= 0 THEN d \o Zeros(v.e)
                 ELSE IF Len(d) + v.e >= 1 THEN SubSeq(d, 1, Len(d) + v.e)
                 ELSE <<"0">>
    IN  (IF v.neg THEN <<"-">> ELSE <<>>) \o whole

\* str(x) of a float: the shortest decimal that reads back as x, always
\* with a fractional part ("1.0", "0.5", "-2.5", "10.0")
FloatStr(v) ==
    LET d == NatStr(v.m)
        k == 0 - v.e
        padded == Zeros(k + 1 - Len(d)) \o d
        body == IF v.e >= 0 THEN d \o Zeros(v.e) \o <<".", "0">>
                ELSE SubSeq(padded, 1, Len(padded) - k) \o <<".">>
                     \o SubSeq(padded, Len(padded) - k + 1, Len(padded))
    IN  (IF v.neg THEN <<"-">> ELSE <<>>) \o body

(***************************************************************************)
(* The neutral tetrahedral format: convertNeutral2Xml, loadNeutral and the *)
(* extraction loop of loadXml.                                             *)
(***************************************************************************)
F(neg, m, e) == [neg |-> neg, m |-> m, e |-> e]

\* vertex lines "x y z" with the numbers they denote
CoordLines ==
    { [toks |-> << <<"0">>, <<"0">>, <<"0">> >>,
       vals |-> <<F(FALSE, 0, 0), F(FALSE, 0, 0), F(FALSE, 0, 0)>>],
      [toks |-> << <<"1", ".", "5">>, <<"-", "2", ".", "5", "0">>, <<"1", "0">> >>,
       vals |-> <<F(FALSE, 15, -1), F(TRUE, 25, -1), F(FALSE, 1, 1)>>],
      [toks |-> << <<"0", ".", "0", "5">>, <<"3">>, <<".", "5">> >>,
       vals |-> <<F(FALSE, 5, -2), F(FALSE, 3, 0), F(FALSE, 5, -1)>>] }

\* a vertex line with a coordinate missing
ShortCoordLines ==
    { [toks |-> << <<"1">>, <<"2">> >>, vals |-> <<>>] }

\* tetrahedron lines "id v0 v1 v2 v3" with the vertex numbers they denote
TetLines ==
    { [toks |-> << <<"1">>, <<"1">>, <<"2">>, <<"1">>, <<"2">> >>,
       vals |-> <<1, 2, 1, 2>>],
      [toks |-> << <<"2">>, <<"2">>, <<"1">>, <<"1">>, <<"1">> >>,
       vals |-> <<2, 1, 1, 1>>],
      [toks |-> << <<"7">>, <<"1">>, <<"1">>, <<"1">>, <<"1">> >>,
       vals |-> <<1, 1, 1, 1>>],
      [toks |-> << <<"3">>, <<"0">>, <<"1">>, <<"2">>, <<"1">> >>,
       vals |-> <<0, 1, 2, 1>>],
      [toks |-> << <<"4">>, <<"1">>, <<"2">>, <<"3">>, <<"1", "2">> >>,
       vals |-> <<1, 2, 3, 12>>] }

\* a tetrahedron line with a vertex missing
ShortTetLines ==
    { [toks |-> << <<"5">>, <<"1">>, <<"2">>, <<"3">> >>, vals |-> <<>>] }

SeqsUpTo(S, n) == UNION { [1..k -> S] : k \in 0..n }

NeutralInputs ==
    [verts : SeqsUpTo(CoordLines \cup ShortCoordLines, MaxVerts),
     tets  : SeqsUpTo(TetLines \cup ShortTetLines, MaxTets)]

\* the text of the file: N, the N vertex lines, T, the T tetrahedron lines
NeutralFile(in) ==
    << <<IntStr(Len(in.verts))>> >>
    \o [k \in 1..Len(in.verts) |-> in.verts[k].toks]
    \o << <<IntStr(Len(in.tets))>> >>
    \o [k \in 1..Len(in.tets) |-> in.tets[k].toks]

WellFormed(in) ==
    /\ \A k \in 1..Len(in.verts) : in.verts[k] \in CoordLines
    /\ \A k \in 1..Len(in.tets) : in.tets[k] \in TetLines

\* lines[i] of Python (0-based); IndexError past the end
HasLine(lines, i) == 0 <= i /\ i < Len(lines)

PyLine(lines, i) == lines[i + 1]

\* range(1, ncoords+1): the line of the k-th vertex, k = 1..ncoords
CoordLineOf(k) == k

\* a tetrahedron loop that starts one line early
TetLineOfEarly(ncoords, k) == ncoords + k

\* range(ncoords+2, ncoords+ntets+2): the line of the k-th tetrahedron
TetLineOf(ncoords, k) == ncoords + 1 + k

\* x,y,z = lines[i].split(); float(x), float(y), float(z)
CoordLineOK(lines, i) ==
    /\ HasLine(lines, i)
    /\ Len(PyLine(lines, i)) = 3
    /\ \A j \in 1..3 : FloatValid(PyLine(lines, i)[j])

CoordOf(text) == <<FloatOf(text[1]), FloatOf(text[2]), FloatOf(text[3])>>

\* text[1..4] exist and are ints
TetLineOK(lines, i) ==
    /\ HasLine(lines, i)
    /\ Len(PyLine(lines, i)) >= 5
    /\ \A j \in 2..5 : IntValid(PyLine(lines, i)[j])

\* the vertex numbers kept as they are in the file
TetOfUnshifted(text) ==
    <<IntOf(text[2]), IntOf(text[3]), IntOf(text[4]), IntOf(text[5])>>

\* [int(v0)-1, int(v1)-1, int(v2)-1, int(v3)-1] of text[1], ..., text[4]
TetOf(text) ==
    <<IntOf(text[2]) - 1, IntOf(text[3]) - 1, IntOf(text[4]) - 1,
      IntOf(text[5]) - 1>>

CountOK(lines, i) ==
    /\ HasLine(lines, i)
    /\ Len(PyLine(lines, i)) = 1
    /\ IntValid(PyLine(lines, i)[1])

CountOf(lines, i) == IntOf(PyLine(lines, i)[1])

\* whether the parsing half of convertNeutral2Xml runs to its end
ParseOK(lines) ==
    /\ CountOK(lines, 0)
    /\ LET ncoords == CountOf(lines, 0) IN
       /\ \A k \in 1..ncoords : CoordLineOK(lines, CoordLineOf(k))
       /\ CountOK(lines, ncoords + 1)
       /\ \A k \in 1..CountOf(lines, ncoords + 1) :
              TetLineOK(lines, TetLineOf(ncoords, k))

ParseCoords(lines) ==
    [k \in 1..CountOf(lines, 0) |-> CoordOf(PyLine(lines, CoordLineOf(k)))]

ParseTets(lines) ==
    LET ncoords == CountOf(lines, 0) IN
    [k \in 1..CountOf(lines, ncoords + 1) |->
        TetOf(PyLine(lines, TetLineOf(ncoords, k)))]

(***************************************************************************)
(* The Dolfin XML file as the sequence of its tags: an opening tag, a      *)
(* closing tag or an empty-element tag, with the attribute text written.   *)
(***************************************************************************)
OpenTag(tag, attrs) == [kind |-> "open", tag |-> tag, attrs |-> attrs]

CloseTag(tag) == [kind |-> "close", tag |-> tag, attrs |-> <<>>]

EmptyTag(tag, attrs) == [kind |-> "empty", tag |-> tag, attrs |-> attrs]

VertexTag(i, p) ==
    EmptyTag("vertex", [index |-> IntStr(i), x |-> FloatStr(p[1]),
                        y |-> FloatStr(p[2]), z |-> FloatStr(p[3])])

TetTag(i, t) ==
    EmptyTag("tetrahedron", [index |-> IntStr(i), v0 |-> IntStr(t[1]),
                             v1 |-> IntStr(t[2]), v2 |-> IntStr(t[3]),
                             v3 |-> IntStr(t[4])])

\* the writing half of convertNeutral2Xml
DolfinXml(coords, tets) ==
    << OpenTag("dolfin", <<>>),
       OpenTag("mesh", [celltype |-> "tetrahedron", dim |-> <<"3">>]),
       OpenTag("vertices", [size |-> IntStr(Len(coords))]) >>
    \o [i \in 1..Len(coords) |-> VertexTag(i - 1, coords[i])]
    \o << CloseTag("vertices"),
          OpenTag("cells", [size |-> IntStr(Len(tets))]) >>
    \o [i \in 1..Len(tets) |-> TetTag(i - 1, tets[i])]
    \o << CloseTag("cells"), CloseTag("mesh"), CloseTag("dolfin") >>

\* the number of elements open around tag k
Depth(doc, k) ==
    Cardinality({j \in 1..(k - 1) : doc[j].kind = "open"})
    - Cardinality({j \in 1..(k - 1) : doc[j].kind = "close"})

\* for mesh in root: for elem in mesh: elem.findall(tag), in document
\* order: the attributes of the `tag` elements three levels below the top
RECURSIVE FindAllFrom(_, _, _)
FindAllFrom(doc, tag, k) ==
    IF k > Len(doc) THEN <<>>
    ELSE (IF /\ doc[k].kind \in {"open", "empty"}
             /\ doc[k].tag = tag
             /\ Depth(doc, k) = 3
          THEN <<doc[k].attrs>> ELSE <<>>)
         \o FindAllFrom(doc, tag, k + 1)

FindAll(doc, tag) == FindAllFrom(doc, tag, 1)

XmlCoords(doc) ==
    LET es == FindAll(doc, "vertex") IN
    [i \in 1..Len(es) |->
        <<FloatOf(es[i].x), FloatOf(es[i].y), FloatOf(es[i].z)>>]

XmlConnectivity(doc) ==
    LET es == FindAll(doc, "tetrahedron") IN
    [i \in 1..Len(es) |->
        <<IntOf(es[i].v0), IntOf(es[i].v1), IntOf(es[i].v2), IntOf(es[i].v3)>>]

\* seq[i] of Python: a negative i counts from the end
PyIndexOK(seq, i) == 0 - Len(seq) <= i /\ i < Len(seq)

PyIndex(seq, i) == IF i >= 0 THEN seq[i + 1] ELSE seq[Len(seq) + i + 1]

NeutralInit ==
    /\ neutralIn \in NeutralInputs
    /\ infile = NeutralFile(neutralIn)
    /\ npc = "start"
    /\ fdolf_coords = <<>>
    /\ idolf_tets = <<>>
    /\ outF = <<>>
    /\ edgePoints = <<>>
    /\ xcoords = <<>>
    /\ xconn = <<>>

NeutralIdle ==
    /\ neutralIn = [verts |-> <<>>, tets |-> <<>>]
    /\ infile = <<>>
    /\ npc = "idle"
    /\ fdolf_coords = <<>>
    /\ idolf_tets = <<>>
    /\ outF = <<>>
    /\ edgePoints = <<>>
    /\ xcoords = <<>>
    /\ xconn = <<>>

\* convertNeutral2Xml(infile, outfile): a short or missing line raises
ConvertNeutral2Xml ==
    /\ npc = "start"
    /\ \E outfile \in BOOLEAN :
          IF ParseOK(infile)
          THEN /\ fdolf_coords' = ParseCoords(infile)
               /\ idolf_tets' = ParseTets(infile)
               /\ outF' = IF outfile
                          THEN DolfinXml(ParseCoords(infile), ParseTets(infile))
                          ELSE outF
               /\ npc' = "converted"
          ELSE /\ npc' = "crashed"
               /\ UNCHANGED <<fdolf_coords, idolf_tets, outF>>
    /\ UNCHANGED <<neutralIn, infile, edgePoints, xcoords, xconn>>
    /\ UNCHANGED <<gvars, dvars, vvars, pvars>>

\* the four lookups coords[cn[0]], ..., coords[cn[3]] of every tetrahedron
EdgeLookupsOK(coords, conn) ==
    \A t \in 1..Len(conn) : \A j \in 1..4 : PyIndexOK(coords, conn[t][j])

EdgeLookups(coords, conn) ==
    [t \in 1..Len(conn) |-> [j \in 1..4 |-> PyIndex(coords, conn[t][j])]]

\* loadNeutral(filename, ..., edges, ...) on an existing file
LoadNeutralMesh ==
    /\ npc = "start"
    /\ \E edges \in BOOLEAN :
          IF ~ParseOK(infile)
          THEN /\ npc' = "crashed"
               /\ UNCHANGED <<fdolf_coords, idolf_tets, edgePoints>>
          ELSE /\ fdolf_coords' = ParseCoords(infile)
               /\ idolf_tets' = ParseTets(infile)
               /\ IF ~edges
                  THEN npc' = "loaded" /\ UNCHANGED edgePoints
                  ELSE IF EdgeLookupsOK(ParseCoords(infile), ParseTets(infile))
                  THEN /\ npc' = "loaded"
                       /\ edgePoints' = EdgeLookups(ParseCoords(infile),
                                                    ParseTets(infile))
                  ELSE npc' = "indexerror" /\ UNCHANGED edgePoints
    /\ UNCHANGED <<neutralIn, infile, outF, xcoords, xconn>>
    /\ UNCHANGED <<gvars, dvars, vvars, pvars>>

\* the extraction loop of loadXml on the file convertNeutral2Xml wrote
LoadXmlExtract ==
    /\ npc = "converted"
    /\ outF # <<>>
    /\ xcoords' = XmlCoords(outF)
    /\ xconn' = XmlConnectivity(outF)
    /\ npc' = "read"
    /\ UNCHANGED <<neutralIn, infile, fdolf_coords, idolf_tets, outF,
                   edgePoints>>
    /\ UNCHANGED <<gvars, dvars, vvars, pvars>>

(***************************************************************************)
(* The Gmsh format: loadGmesh, up to the points and triangles handed to    *)
(* the toolkit (vtkCleanPolyData and makeActor are the toolkit's).         *)
(***************************************************************************)
\* node lines "id x y z" with the id and the point they denote
NodeLines ==
    { [toks |-> << <<"1">>, <<"0">>, <<"0">>, <<"0">> >>, id |-> 1,
       xyz |-> <<F(FALSE, 0, 0), F(FALSE, 0, 0), F(FALSE, 0, 0)>>],
      [toks |-> << <<"2">>, <<"1">>, <<"0">>, <<"0">> >>, id |-> 2,
       xyz |-> <<F(FALSE, 1, 0), F(FALSE, 0, 0), F(FALSE, 0, 0)>>],
      [toks |-> << <<"3">>, <<"0">>, <<"1">>, <<"0">> >>, id |-> 3,
       xyz |-> <<F(FALSE, 0, 0), F(FALSE, 1, 0), F(FALSE, 0, 0)>>],
      [toks |-> << <<"5">>, <<"0">>, <<"0">>, <<"2", ".", "5">> >>, id |-> 5,
       xyz |-> <<F(FALSE, 0, 0), F(FALSE, 0, 0), F(FALSE, 25, -1)>>] }

\* element lines "id type ntags tags... n0 n1 n2" with the node ids they end in
ElemLines ==
    { [toks |-> << <<"1">>, <<"2">>, <<"2">>, <<"0">>, <<"1">>,
                   <<"1">>, <<"2">>, <<"3">> >>, ids |-> <<1, 2, 3>>],
      [toks |-> << <<"2">>, <<"2">>, <<"0">>,
                   <<"2">>, <<"1">>, <<"1">> >>, ids |-> <<2, 1, 1>>],
      [toks |-> << <<"3">>, <<"2">>, <<"2">>, <<"0">>, <<"1">>,
                   <<"1">>, <<"2">>, <<"5">> >>, ids |-> <<1, 2, 5>>] }

\* node ids are distinct within a file
\* an element line too short to hold three node ids
ShortElemLines ==
    { [toks |-> << <<"4">>, <<"2">> >>, ids |-> <<>>] }

GmshInputs ==
    { in \in [nodes : SeqsUpTo(NodeLines, MaxNodes),
              elems : SeqsUpTo(ElemLines \cup ShortElemLines, MaxElems)] :
        \A a, b \in 1..Len(in.nodes) : in.nodes[a] = in.nodes[b] => a = b }

NodesMark == <<"$", "N", "o", "d", "e", "s">>

ElementsMark == <<"$", "E", "l", "e", "m", "e", "n", "t", "s">>

GmshFile(in) ==
    << << <<"$", "M", "e", "s", "h", "F", "o", "r", "m", "a", "t">> >>,
       << <<"2", ".", "2">>, <<"0">>, <<"8">> >>,
       << <<"$", "E", "n", "d", "M", "e", "s", "h", "F", "o", "r", "m", "a", "t">> >>,
       << NodesMark >>,
       << IntStr(Len(in.nodes)) >> >>
    \o [k \in 1..Len(in.nodes) |-> in.nodes[k].toks]
    \o << << <<"$", "E", "n", "d">> \o Tail(NodesMark) >>,
          << ElementsMark >>,
          << IntStr(Len(in.elems)) >> >>
    \o [k \in 1..Len(in.elems) |-> in.elems[k].toks]
    \o << << <<"$", "E", "n", "d">> \o Tail(ElementsMark) >> >>

\* `mark in line`: the marker holds no blank, so it lies within one token
LineHas(line, mark) == \E j \in 1..Len(line) : Contains(line[j], mark)

Found(lines, mark) == \E i \in 0..(Len(lines) - 1) : LineHas(PyLine(lines, i), mark)

\* the enumerate loop with its break: the first line holding the marker
FirstWith(lines, mark) ==
    CHOOSE i \in 0..(Len(lines) - 1) :
        /\ LineHas(PyLine(lines, i), mark)
        /\ \A h \in 0..(i - 1) : ~LineHas(PyLine(lines, h), mark)

\* index_nodes / index_elements: the line after the marker, 0 when there is none
IndexAfter(lines, mark) ==
    IF Found(lines, mark) THEN FirstWith(lines, mark) + 1 ELSE 0

\* int(lines[index]) of the section found
SectionCountOK(lines, mark) ==
    Found(lines, mark) =>
        /\ HasLine(lines, IndexAfter(lines, mark))
        /\ Len(PyLine(lines, IndexAfter(lines, mark))) = 1
        /\ IntValid(PyLine(lines, IndexAfter(lines, mark))[1])

\* nnodes / nelements: 0 when the marker is not found
SectionCount(lines, mark) ==
    IF Found(lines, mark) THEN CountOf(lines, IndexAfter(lines, mark)) ELSE 0

\* range(index+1, index+1+n): the line of the k-th entry, k = 1..n
SectionLineOf(lines, mark, k) == IndexAfter(lines, mark) + k

\* cn = lines[i].split(); float(cn[1]), float(cn[2]), float(cn[3])
NodeLineOK(lines, i) ==
    /\ HasLine(lines, i)
    /\ Len(PyLine(lines, i)) >= 4
    /\ \A j \in 2..4 : FloatValid(PyLine(lines, i)[j])

NodeOf(cn) == <<FloatOf(cn[2]), FloatOf(cn[3]), FloatOf(cn[4])>>

\* ele = lines[i].split(); int(ele[-3]), int(ele[-2]), int(ele[-1])
ElemLineOK(lines, i) ==
    /\ HasLine(lines, i)
    /\ Len(PyLine(lines, i)) >= 3
    /\ \A j \in 0..2 : IntValid(PyLine(lines, i)[Len(PyLine(lines, i)) - j])

ElemOf(ele) ==
    <<IntOf(ele[Len(ele) - 2]), IntOf(ele[Len(ele) - 1]), IntOf(ele[Len(ele)])>>

GmshOK(lines) ==
    /\ SectionCountOK(lines, NodesMark)
    /\ \A k \in 1..SectionCount(lines, NodesMark) :
           NodeLineOK(lines, SectionLineOf(lines, NodesMark, k))
    /\ SectionCountOK(lines, ElementsMark)
    /\ \A k \in 1..SectionCount(lines, ElementsMark) :
           ElemLineOK(lines, SectionLineOf(lines, ElementsMark, k))

node_coords(lines) ==
    [k \in 1..SectionCount(lines, NodesMark) |->
        NodeOf(PyLine(lines, SectionLineOf(lines, NodesMark, k)))]

elements(lines) ==
    [k \in 1..SectionCount(lines, ElementsMark) |->
        ElemOf(PyLine(lines, SectionLineOf(lines, ElementsMark, k)))]

\* triangle.GetPointIds().SetId(j, e[j]-1): the point id is the position in
\* the file of the node numbered e[j], counted from 0
TriangleOf(e) == <<e[1] - 1, e[2] - 1, e[3] - 1>>

GmshInit ==
    /\ gmshIn \in GmshInputs
    /\ gfile = GmshFile(gmshIn)
    /\ gpc = "start"
    /\ sourcePoints = <<>>
    /\ sourceTriangles = <<>>

GmshIdle ==
    /\ gmshIn = [nodes |-> <<>>, elems |-> <<>>]
    /\ gfile = <<>>
    /\ gpc = "idle"
    /\ sourcePoints = <<>>
    /\ sourceTriangles = <<>>

\* loadGmesh(filename, ...) on an existing file
LoadGmeshMesh ==
    /\ gpc = "start"
    /\ IF GmshOK(gfile)
       THEN /\ sourcePoints' = node_coords(gfile)
            /\ sourceTriangles' =
                   [i \in 1..Len(elements(gfile)) |-> TriangleOf(elements(gfile)[i])]
            /\ gpc' = "done"
       ELSE /\ gpc' = "crashed"
            /\ UNCHANGED <<sourcePoints, sourceTriangles>>
    /\ UNCHANGED <<gmshIn, gfile>>
    /\ UNCHANGED <<nvars, dvars, vvars, pvars>>

(***************************************************************************)
(* File names: lower(), the substrings tested, the names drawn.            *)
(***************************************************************************)
UpperCase == <<"A", "B", "C", "D", "E", "F", "G", "H", "I", "J", "K", "L", "M",
               "N", "O", "P", "Q", "R", "S", "T", "U", "V", "W", "X", "Y", "Z">>

LowerCase == <<"a", "b", "c", "d", "e", "f", "g", "h", "i", "j", "k", "l", "m",
               "n", "o", "p", "q", "r", "s", "t", "u", "v", "w", "x", "y", "z">>

LowerChar(c) ==
    IF \E i \in 1..26 : UpperCase[i] = c
    THEN LowerCase[CHOOSE i \in 1..26 : UpperCase[i] = c]
    ELSE c

\* str.lower()
Lower(name) == [k \in 1..Len(name) |-> LowerChar(name[k])]

\* str.endswith(pat)
EndsWith(name, pat) ==
    Len(pat) <= Len(name) /\ OccursAt(name, pat, Len(name) - Len(pat) + 1)

\* the characters of file names in ASCII order, for sorted()
CharOrder == <<".", "/">> \o Digits \o UpperCase \o LowerCase

CharCode(c) == CHOOSE i \in 1..Len(CharOrder) : CharOrder[i] = c

RECURSIVE StrLess(_, _)
StrLess(a, b) ==
    IF b = <<>> THEN FALSE
    ELSE IF a = <<>> THEN TRUE
    ELSE IF a[1] # b[1] THEN CharCode(a[1]) < CharCode(b[1])
    ELSE StrLess(Tail(a), Tail(b))

dot_xml == <<".", "x", "m", "l">>

dot_xml_gz == <<".", "x", "m", "l", ".", "g", "z">>

dot_neutral == <<".", "n", "e", "u", "t", "r", "a", "l">>

dot_gmsh == <<".", "g", "m", "s", "h">>

dot_pcd == <<".", "p", "c", "d">>

dot_tif == <<".", "t", "i", "f">>

dot_slc == <<".", "s", "l", "c">>

dot_png == <<".", "p", "n", "g">>

dot_jpg == <<".", "j", "p", "g">>

dot_jpeg == <<".", "j", "p", "e", "g">>

dot_vtk == <<".", "v", "t", "k">>

dot_ply == <<".", "p", "l", "y">>

dot_obj == <<".", "o", "b", "j">>

dot_stl == <<".", "s", "t", "l">>

dot_byu == <<".", "b", "y", "u">>

dot_g == <<".", "g">>

dot_vtp == <<".", "v", "t", "p">>

dot_vts == <<".", "v", "t", "s">>

dot_vtu == <<".", "v", "t", "u">>

dot_txt == <<".", "t", "x", "t">>

dot_xyz == <<".", "x", "y", "z">>

dot_gz == <<".", "g", "z">>

\* the fragments file names are put together from
NameParts ==
    { <<"m", "e", "s", "h">>,
      <<".", "x", "m", "l">>,
      <<".", "n", "e", "u", "t", "r", "a", "l">>,
      <<".", "g", "m", "s", "h">>,
      <<".", "p", "c", "d">>,
      <<".", "t", "i", "f">>,
      <<".", "s", "l", "c">>,
      <<".", "p", "n", "g">>,
      <<".", "J", "P", "G">>,
      <<".", "j", "p", "e", "g">>,
      <<".", "v", "t", "k">>,
      <<".", "p", "l", "y">>,
      <<".", "o", "b", "j">>,
      <<".", "s", "t", "l">>,
      <<".", "b", "y", "u">>,
      <<".", "v", "t", "p">>,
      <<".", "g", "z">> }

RECURSIVE Join(_)
Join(parts) == IF parts = <<>> THEN <<>> ELSE parts[1] \o Join(Tail(parts))

FileNames == { Join(ps) : ps \in UNION { [1..k -> NameParts] : k \in 1..MaxParts } }

\* the entries a directory may hold
DirEntries == { <<"a", ".", "v", "t", "k">>,
                <<"b", ".", "P", "N", "G">>,
                <<"c", ".", "s", "l", "c">> }

\* sorted(os.listdir(mydir)): the entries in increasing order
Listings ==
    { l \in SeqsUpTo(DirEntries, MaxDirFiles) :
        \A k \in 1..(Len(l) - 1) : StrLess(l[k], l[k + 1]) }

(***************************************************************************)
(* loadFile and the loaders it dispatches to, loadDir and write, each up   *)
(* to the toolkit calls it makes. An outcome records the loaders (or the   *)
(* writer) chosen, the toolkit readers and writers given a file, the       *)
(* messages printed and the value returned ("exit": the process ended).    *)
(***************************************************************************)
Out(c, h, p, r) == [called |-> c, handed |-> h, printed |-> p, result |-> r]

Hand(tool, file) == [tool |-> tool, file |-> file]

TmpXmlPath == <<"/", "t", "m", "p", "/", "f", "i", "l", "e", "n", "a", "m", "e", ".", "x", "m", "l">>

\* loadXml: the existence check, the gzip branch, the parse
loadXml(fname, ex) ==
    IF ~ex
    THEN Out(<<>>, <<>>, <<"Error in loadXml: Cannot find">>, "None")
    ELSE IF Contains(fname, dot_gz)
    THEN Out(<<>>, <<Hand("gzip", fname), Hand("ElementTree", TmpXmlPath)>>,
             <<"..loading">>, "actor")
    ELSE Out(<<>>, <<Hand("ElementTree", fname)>>, <<"..loading">>, "actor")

loadNeutral(fname, ex) ==
    IF ~ex
    THEN Out(<<>>, <<>>, <<"Error in loadNeutral: Cannot find">>, "None")
    ELSE Out(<<>>, <<Hand("convertNeutral2Xml", fname)>>, <<>>, "actor")

loadGmesh(fname, ex) ==
    IF ~ex
    THEN Out(<<>>, <<>>, <<"Error in loadGmesh: Cannot find">>, "None")
    ELSE Out(<<>>, <<Hand("open", fname)>>, <<>>, "actor")

loadPCD(fname, ex) ==
    IF ~ex
    THEN Out(<<>>, <<>>, <<"Error in loadPCD: Cannot find file">>, "None")
    ELSE Out(<<>>, <<Hand("open", fname)>>, <<>>, "actor")

\* canRead: what vtkSLCReader.CanReadFile answers
loadVolume(fname, ex, canRead) ==
    LET fl == Lower(fname) IN
    IF ~ex
    THEN Out(<<>>, <<>>, <<"Error in loadVolume: Cannot find file">>, "None")
    ELSE IF Contains(fl, dot_tif)
    THEN Out(<<>>, <<Hand("vtkTIFFReader", fname)>>, <<"..reading file">>, "actor")
    ELSE IF Contains(fl, dot_slc)
    THEN IF canRead
         THEN Out(<<>>, <<Hand("vtkSLCReader", fname)>>, <<"..reading file">>,
                  "actor")
         ELSE Out(<<>>, <<>>, <<"..reading file", "Sorry bad SLC file">>, "exit")
    ELSE Out(<<>>, <<>>, <<"..reading file">>, "NameError")

\* load2Dimage: no existence check; the reader is given the file as it is
load2Dimage(fname) ==
    LET fl == Lower(fname) IN
    IF Contains(fl, dot_png)
    THEN Out(<<>>, <<Hand("vtkPNGReader", fname)>>, <<>>, "actor")
    ELSE IF Contains(fl, dot_jpg) \/ Contains(fl, dot_jpeg)
    THEN Out(<<>>, <<Hand("vtkJPEGReader", fname)>>, <<>>, "actor")
    ELSE Out(<<>>, <<>>, <<"file must end with .png or .jpg">>, "exit")

\* the reader loadPoly picks
PolyReaderFor(fl) ==
    IF Contains(fl, dot_vtk) THEN "vtkPolyDataReader"
    ELSE IF Contains(fl, dot_ply) THEN "vtkPLYReader"
    ELSE IF Contains(fl, dot_obj) THEN "vtkOBJReader"
    ELSE IF Contains(fl, dot_stl) THEN "vtkSTLReader"
    ELSE IF Contains(fl, dot_byu) \/ Contains(fl, dot_g) THEN "vtkBYUReader"
    ELSE IF Contains(fl, dot_vtp) THEN "vtkXMLPolyDataReader"
    ELSE IF Contains(fl, dot_vts) THEN "vtkXMLStructuredGridReader"
    ELSE IF Contains(fl, dot_vtu) THEN "vtkXMLUnstructuredGridReader"
    ELSE IF Contains(fl, dot_txt) THEN "vtkParticleReader"
    ELSE IF Contains(fl, dot_xyz) THEN "vtkParticleReader"
    ELSE "vtkDataReader"

\* loadPoly returns a vtkPolyData ("poly"), or None for a missing file
loadPoly(fname, ex) ==
    IF ~ex
    THEN Out(<<>>, <<>>, <<"Error in loadPoly: Cannot find">>, "None")
    ELSE Out(<<>>, <<Hand(PolyReaderFor(Lower(fname)), fname)>>, <<>>, "poly")

\* a dispatch anchored at the end of the name instead of anywhere in it
LoaderForAnchored(fl) ==
    IF EndsWith(fl, dot_xml) \/ EndsWith(fl, dot_xml_gz) THEN "loadXml"
    ELSE IF EndsWith(fl, dot_neutral) THEN "loadNeutral"
    ELSE IF EndsWith(fl, dot_gmsh) THEN "loadGmesh"
    ELSE IF EndsWith(fl, dot_pcd) THEN "loadPCD"
    ELSE IF EndsWith(fl, dot_tif) \/ EndsWith(fl, dot_slc) THEN "loadVolume"
    ELSE IF EndsWith(fl, dot_png) \/ EndsWith(fl, dot_jpg)
            \/ EndsWith(fl, dot_jpeg) THEN "load2Dimage"
    ELSE "loadPoly"

\* the if/elif chain of loadFile
LoaderFor(fl) ==
    IF Contains(fl, dot_xml) \/ Contains(fl, dot_xml_gz) THEN "loadXml"
    ELSE IF Contains(fl, dot_neutral) THEN "loadNeutral"
    ELSE IF Contains(fl, dot_gmsh) THEN "loadGmesh"
    ELSE IF Contains(fl, dot_pcd) THEN "loadPCD"
    ELSE IF Contains(fl, dot_tif) \/ Contains(fl, dot_slc) THEN "loadVolume"
    ELSE IF Contains(fl, dot_png) \/ Contains(fl, dot_jpg)
            \/ Contains(fl, dot_jpeg) THEN "load2Dimage"
    ELSE "loadPoly"

\* the else branch of loadFile: loadPoly, then makeActor
loadFilePoly(fname, ex) ==
    LET o == loadPoly(fname, ex) IN
    IF o.result = "None"
    THEN Out(<<>>, o.handed, o.printed \o <<"Unable to load">>, "False")
    ELSE Out(<<>>, o.handed, o.printed, "actor")

loadFile(fname, ex, canRead) ==
    LET loader == LoaderFor(Lower(fname))
        o == CASE loader = "loadXml" -> loadXml(fname, ex)
               [] loader = "loadNeutral" -> loadNeutral(fname, ex)
               [] loader = "loadGmesh" -> loadGmesh(fname, ex)
               [] loader = "loadPCD" -> loadPCD(fname, ex)
               [] loader = "loadVolume" -> loadVolume(fname, ex, canRead)
               [] loader = "load2Dimage" -> load2Dimage(fname)
               [] OTHER -> loadFilePoly(fname, ex)
    IN  [o EXCEPT !.called = <<loader>>]

\* the loop of loadDir over the sorted listing; acts is never appended to
RECURSIVE loadDirLoop(_, _, _, _)
loadDirLoop(mydir, entries, canRead, acc) ==
    IF entries = <<>> THEN [acc EXCEPT !.result = "[]"]
    ELSE LET o == loadFile(mydir \o <<"/">> \o entries[1], TRUE, canRead)
             sum == Out(acc.called \o o.called, acc.handed \o o.handed,
                        acc.printed \o o.printed, o.result)
         IN  IF o.result = "exit" THEN sum
             ELSE loadDirLoop(mydir, Tail(entries), canRead, sum)

loadDir(mydir, ex, entries, canRead) ==
    IF ~ex
    THEN Out(<<>>, <<>>, <<"Error in loadDir: Cannot find">>, "exit")
    ELSE loadDirLoop(mydir, entries, canRead, Out(<<>>, <<>>, <<>>, "[]"))

\* str.replace(pat, '')
RECURSIVE Remove(_, _)
Remove(str, pat) ==
    IF str = <<>> THEN <<>>
    ELSE IF OccursAt(str, pat, 1)
    THEN Remove(SubSeq(str, Len(pat) + 1, Len(str)), pat)
    ELSE <<str[1]>> \o Remove(Tail(str), pat)

\* a chain that knows the six documented extensions only
WriterForDocumented(fr) ==
    IF Contains(fr, dot_vtk) THEN "vtkPolyDataWriter"
    ELSE IF Contains(fr, dot_ply) THEN "vtkPLYWriter"
    ELSE IF Contains(fr, dot_obj) THEN "vtkOBJExporter"
    ELSE IF Contains(fr, dot_stl) THEN "vtkSTLWriter"
    ELSE IF Contains(fr, dot_byu) THEN "vtkBYUWriter"
    ELSE IF Contains(fr, dot_vtp) THEN "vtkXMLPolyDataWriter"
    ELSE "none"

\* the if/elif chain of write
WriterFor(fr) ==
    IF Contains(fr, dot_vtk) THEN "vtkPolyDataWriter"
    ELSE IF Contains(fr, dot_ply) THEN "vtkPLYWriter"
    ELSE IF Contains(fr, dot_obj) THEN "vtkOBJExporter"
    ELSE IF Contains(fr, dot_stl) THEN "vtkSTLWriter"
    ELSE IF Contains(fr, dot_byu) \/ Contains(fr, dot_g) THEN "vtkBYUWriter"
    ELSE IF Contains(fr, dot_vtp) THEN "vtkXMLPolyDataWriter"
    ELSE "none"

\* write(obj, fileoutput); ok: the toolkit calls inside try raise nothing
write(fileoutput, ok) ==
    LET w == WriterFor(Lower(fileoutput)) IN
    IF w = "none"
    THEN Out(<<>>, <<>>, <<"Unavailable format in file">>, "exit")
    ELSE IF w = "vtkOBJExporter"
    THEN Out(<<w>>, <<Hand(w, Remove(fileoutput, dot_obj))>>,
             <<"Please use write(vp.renderWin)", "Saved file">>, "None")
    ELSE IF ok
    THEN Out(<<w>>, <<Hand(w, fileoutput)>>, <<"Saved file">>, "None")
    ELSE Out(<<w>>, <<>>, <<"Error saving">>, "None")

DispatchInit ==
    /\ filename \in FileNames
    /\ exists \in BOOLEAN
    /\ listing = <<>>
    /\ dpc = "start"
    /\ op = "none"
    /\ called = <<>>
    /\ handed = <<>>
    /\ printed = <<>>
    /\ result = "none"

DispatchIdle ==
    /\ filename = <<>>
    /\ exists = FALSE
    /\ listing = <<>>
    /\ dpc = "idle"
    /\ op = "none"
    /\ called = <<>>
    /\ handed = <<>>
    /\ printed = <<>>
    /\ result = "none"

Returned(o, name) ==
    /\ called' = o.called
    /\ handed' = o.handed
    /\ printed' = o.printed
    /\ result' = o.result
    /\ op' = name
    /\ dpc' = "done"

LoadFile ==
    /\ dpc = "start"
    /\ \E canRead \in BOOLEAN : Returned(loadFile(filename, exists, canRead), "loadFile")
    /\ UNCHANGED <<filename, exists, listing>>
    /\ UNCHANGED <<nvars, gvars, vvars, pvars>>

LoadDir ==
    /\ dpc = "start"
    /\ \E entries \in (IF exists THEN Listings ELSE {<<>>}) :
          /\ listing' = entries
          /\ \E canRead \in BOOLEAN :
                Returned(loadDir(filename, exists, entries, canRead), "loadDir")
    /\ UNCHANGED <<filename, exists>>
    /\ UNCHANGED <<nvars, gvars, vvars, pvars>>

Write ==
    /\ dpc = "start"
    /\ \E ok \in BOOLEAN : Returned(write(filename, ok), "write")
    /\ UNCHANGED <<filename, exists, listing>>
    /\ UNCHANGED <<nvars, gvars, vvars, pvars>>

(***************************************************************************)
(* Video: two objects recording into the one directory /tmp/vpvid, and     *)
(* loadXml unpacking gzipped files into /tmp/filename.xml. The file        *)
(* /tmp/vpvid/<n>.png is frame number n; an image is the number of the     *)
(* screenshot that made it. An exception ends the run.                     *)
(***************************************************************************)
Videos == {"A", "B"}

\* fps arguments drawn; 12 is the default
FpsValues == {1, 12}

\* duration arguments drawn; 0 stands for the default None (both are falsy)
Durations == {0, 2}

\* pause arguments drawn, in seconds
Pauses == {0, 1}

\* gzipped files loadXml is called on
GzFiles == {"m1.xml.gz", "m2.xml.gz"}

NoFrames == [n \in {} |-> 0]

NoVideo ==
    [state |-> "none", fps |-> 0, duration |-> 0, frames |-> <<>>,
     recorded |-> <<>>, rate |-> [num |-> 0, den |-> 1], encoded |-> <<>>,
     saved |-> FALSE]

Raised == \E v \in Videos : video[v].state = "raised"

\* every frame lands in file 0
FrameNumberFixed(frames) == 0

\* '/tmp/vpvid/' + str(len(self.frames)) + '.png'
FrameNumber(frames) == Len(frames)

\* a file written or overwritten
PutFile(dir, n, image) ==
    [k \in DOMAIN dir \cup {n} |-> IF k = n THEN image ELSE dir[k]]

\* cp -f fr fr2: nothing is written when fr does not exist
CopyFile(dir, fr, fr2) ==
    IF fr \in DOMAIN dir THEN PutFile(dir, fr2, dir[fr]) ELSE dir

\* the image cp copied, 0 when there was none
CopiedImage(dir, fr) == IF fr \in DOMAIN dir THEN dir[fr] ELSE 0

\* the loop of pause: n frames appended, each a copy of fr
RECURSIVE PauseLoop(_, _, _, _)
PauseLoop(n, fr, vid, dir) ==
    IF n <= 0 THEN [vid |-> vid, dir |-> dir]
    ELSE LET fr2 == FrameNumber(vid.frames) IN
         PauseLoop(n - 1, fr,
                   [vid EXCEPT !.frames = Append(@, fr2),
                               !.recorded = Append(@, CopiedImage(dir, fr))],
                   CopyFile(dir, fr, fr2))

\* the files ffmpeg reads for /tmp/vpvid/%01d.png: 0.png, 1.png, ... while
\* they exist
RECURSIVE FramesFrom(_, _)
FramesFrom(dir, n) ==
    IF n \in DOMAIN dir THEN <<dir[n]>> \o FramesFrom(dir, n + 1) ELSE <<>>

VideoInit ==
    /\ vpvid = NoFrames
    /\ tmpxml = "none"
    /\ video = [v \in Videos |-> NoVideo]
    /\ shots = 0
    /\ vlast = [obj |-> "none", op |-> "none"]

VideoIdle ==
    /\ vpvid = NoFrames
    /\ tmpxml = "idle"
    /\ video = [v \in Videos |-> NoVideo]
    /\ shots = 0
    /\ vlast = [obj |-> "none", op |-> "none"]

\* Video(renderWindow, name, fps, duration): every png of /tmp/vpvid is removed
VideoNew(v) ==
    /\ tmpxml # "idle"
    /\ ~Raised
    /\ video[v].state = "none"
    /\ \E fps \in FpsValues, duration \in Durations :
          video' = [video EXCEPT ![v] = [NoVideo EXCEPT !.state = "open",
                                                       !.fps = fps,
                                                       !.duration = duration]]
    /\ vpvid' = NoFrames
    /\ vlast' = [obj |-> v, op |-> "init"]
    /\ UNCHANGED <<tmpxml, shots>>
    /\ UNCHANGED <<nvars, gvars, dvars, pvars>>

\* addFrame(): a screenshot into the file numbered by the frames so far
AddFrame(v) ==
    /\ ~Raised
    /\ video[v].state \in {"open", "closed"}
    /\ Len(video[v].frames) < MaxFrames
    /\ LET fr == FrameNumber(video[v].frames) IN
       /\ vpvid' = PutFile(vpvid, fr, shots + 1)
       /\ video' = [video EXCEPT ![v].frames = Append(@, fr),
                                 ![v].recorded = Append(@, shots + 1)]
    /\ shots' = shots + 1
    /\ vlast' = [obj |-> v, op |-> "addFrame"]
    /\ UNCHANGED tmpxml
    /\ UNCHANGED <<nvars, gvars, dvars, pvars>>

\* pause(pause): int(fps*pause) copies of the last frame; frames[-1] raises
\* IndexError when no frame was added
Pause(v) ==
    /\ ~Raised
    /\ video[v].state \in {"open", "closed"}
    /\ \E pause \in Pauses :
          LET n == video[v].fps * pause IN
          /\ Len(video[v].frames) + n <= MaxFrames
          /\ IF video[v].frames = <<>>
             THEN /\ video' = [video EXCEPT ![v].state = "raised"]
                  /\ UNCHANGED vpvid
             ELSE LET fr == video[v].frames[Len(video[v].frames)]
                      end == PauseLoop(n, fr, video[v], vpvid)
                  IN  /\ video' = [video EXCEPT ![v] = end.vid]
                      /\ vpvid' = end.dir
    /\ vlast' = [obj |-> v, op |-> "pause"]
    /\ UNCHANGED <<tmpxml, shots>>
    /\ UNCHANGED <<nvars, gvars, dvars, pvars>>

\* close(): with a duration the rate is len(frames)/duration; without one
\* `_fps = int(_fps)` reads a local never assigned: UnboundLocalError
Close(v) ==
    /\ ~Raised
    /\ video[v].state = "open"
    /\ IF video[v].duration # 0
       THEN video' = [video EXCEPT
                ![v].state = "closed",
                ![v].rate = [num |-> Len(video[v].frames),
                             den |-> video[v].duration],
                ![v].encoded = FramesFrom(vpvid, 0),
                ![v].saved = TRUE]
       ELSE video' = [video EXCEPT ![v].state = "raised"]
    /\ vlast' = [obj |-> v, op |-> "close"]
    /\ UNCHANGED <<vpvid, tmpxml, shots>>
    /\ UNCHANGED <<nvars, gvars, dvars, pvars>>

\* loadXml on an existing gzipped file: it is unpacked into /tmp/filename.xml
LoadXmlGz ==
    /\ tmpxml # "idle"
    /\ ~Raised
    /\ \E f \in GzFiles : tmpxml' = f
    /\ vlast' = [obj |-> "none", op |-> "loadXml"]
    /\ UNCHANGED <<vpvid, video, shots>>
    /\ UNCHANGED <<nvars, gvars, dvars, pvars>>

(***************************************************************************)
(* ProgressBar. The text printed to the terminal (ETA, eraser, _lentxt)    *)
(* is not modelled, the exception its ETA branch can raise is. round() is  *)
(* Python 3's (a half goes to the even neighbour).                         *)
(***************************************************************************)
\* width=25 in the signature of __init__
DefaultWidth == 25

Starts == {0 - 1, 0, 2}

Steps == {1, 2}

Widths == {3, DefaultWidth}

RECURSIVE Repeat(_, _)
Repeat(c, n) == IF n <= 0 THEN <<>> ELSE <<c>> \o Repeat(c, n - 1)

\* int(round(num/den)) for den > 0
RoundDiv(num, den) ==
    LET q == num \div den
        r == num % den
    IN  IF 2 * r < den THEN q
        ELSE IF 2 * r > den THEN q + 1
        ELSE IF q % 2 = 0 THEN q ELSE q + 1

\* the two comparisons at the top of _update
Clamp(counts, start, stop) ==
    IF counts < start THEN start
    ELSE IF counts > stop THEN stop
    ELSE counts

\* the bracketed part of the bar
BarOf(nh, af) ==
    IF nh = 0 THEN <<"[", ">">> \o Repeat(" ", af - 1) \o <<"]">>
    ELSE IF nh = af THEN <<"[">> \o Repeat("=", af) \o <<"]">>
    ELSE <<"[">> \o Repeat("=", nh - 1) \o <<">">> \o Repeat(" ", af - nh)
         \o <<"]">>

_update(p, counts) ==
    LET c == Clamp(counts, p.start, p.stop)
        percent == RoundDiv((c - p.start) * 100, p.stop - p.start)
        af == p.width - 2
        nh == RoundDiv(percent * af, 100)
    IN  [p EXCEPT !._counts = c,
                  !.percent = percent,
                  !.bar = BarOf(nh, af) \o <<" ">> \o IntStr(percent) \o <<"%">>]

\* ProgressBar(start, stop, step, ETA=eta, width=width): _update(0), and then
\* _counts and _oldbar are set
NewProgressBar(start, stop, step, eta, width) ==
    LET p0 == [start |-> start, stop |-> stop, step |-> step, width |-> width,
               ETA |-> eta, bar |-> <<>>, percent |-> 0, _counts |-> 0,
               _oldbar |-> <<>>]
    IN  [_update(p0, 0) EXCEPT !._counts = 0, !._oldbar = <<>>]

\* `if counts`: None and 0 are both false
Truthy(given, counts) == given /\ counts # 0

\* the update at the top of print(txt, counts)
PrintUpdate(p, given, counts) ==
    IF Truthy(given, counts) THEN _update(p, counts)
    ELSE _update(p, p._counts + p.step)

\* the branch of print taken when the bar changed: _oldbar is set, and with
\* ETA on, remt = (stop - _counts)/vel divides by vel = 0.0 when _counts is 0
PrintRaises(p) == p.bar # p._oldbar /\ p.ETA /\ p._counts = 0

print(p, given, counts) ==
    LET q == PrintUpdate(p, given, counts) IN
    IF q.bar # q._oldbar THEN [q EXCEPT !._oldbar = q.bar] ELSE q

ProgressInit ==
    /\ \E start \in Starts, stop \in 1..MaxStop, step \in Steps,
          eta \in BOOLEAN, width \in Widths :
          /\ start < stop
          /\ pb = NewProgressBar(start, stop, step, eta, width)
    /\ ppc = "new"
    /\ plast = [op |-> "init", given |-> FALSE, counts |-> 0]

ProgressIdle ==
    /\ pb = [start |-> 0, stop |-> 0, step |-> 0, width |-> 0, ETA |-> FALSE,
             bar |-> <<>>, percent |-> 0, _counts |-> 0, _oldbar |-> <<>>]
    /\ ppc = "idle"
    /\ plast = [op |-> "none", given |-> FALSE, counts |-> 0]

PrintCall(given, counts) ==
    /\ ppc \in {"new", "ok"}
    /\ pb' = print(pb, given, counts)
    /\ ppc' = IF PrintRaises(PrintUpdate(pb, given, counts)) THEN "raised" ELSE "ok"
    /\ plast' = [op |-> "print", given |-> given, counts |-> counts]
    /\ UNCHANGED <<nvars, gvars, dvars, vvars>>

\* pb.print(txt)
PrintStep == PrintCall(FALSE, 0)

\* pb.print(counts=k)
PrintCounts == \E k \in (pb.start - 1)..(pb.stop + 1) : PrintCall(TRUE, k)

(***************************************************************************)
(* Specifications: one per part of the module, the other parts idle.       *)
(***************************************************************************)
NeutralNext == ConvertNeutral2Xml \/ LoadNeutralMesh \/ LoadXmlExtract

InitNeutral ==
    NeutralInit /\ GmshIdle /\ DispatchIdle /\ VideoIdle /\ ProgressIdle

SpecNeutral == InitNeutral /\ [][NeutralNext]_vars

GmshNext == LoadGmeshMesh

InitGmsh ==
    NeutralIdle /\ GmshInit /\ DispatchIdle /\ VideoIdle /\ ProgressIdle

SpecGmsh == InitGmsh /\ [][GmshNext]_vars

DispatchNext == LoadFile \/ LoadDir \/ Write

InitDispatch ==
    NeutralIdle /\ GmshIdle /\ DispatchInit /\ VideoIdle /\ ProgressIdle

SpecDispatch == InitDispatch /\ [][DispatchNext]_vars

VideoNext ==
    \/ \E v \in Videos : VideoNew(v)
    \/ \E v \in Videos : AddFrame(v)
    \/ \E v \in Videos : Pause(v)
    \/ \E v \in Videos : Close(v)
    \/ LoadXmlGz

InitVideo ==
    NeutralIdle /\ GmshIdle /\ DispatchIdle /\ VideoInit /\ ProgressIdle

SpecVideo == InitVideo /\ [][VideoNext]_vars

ProgressNext == PrintStep \/ PrintCounts

InitProgress ==
    NeutralIdle /\ GmshIdle /\ DispatchIdle /\ VideoIdle /\ ProgressInit

SpecProgress == InitProgress /\ [][ProgressNext]_vars

\* the whole module: one part is run
Init ==
    \/ InitNeutral
    \/ InitGmsh
    \/ InitDispatch
    \/ InitVideo
    \/ InitProgress

Next ==
    \/ NeutralNext
    \/ GmshNext
    \/ DispatchNext
    \/ VideoNext
    \/ ProgressNext

Spec == Init /\ [][Next]_vars

(***************************************************************************)
(* The claims.                                                             *)
(***************************************************************************)
ExpectedCoords(in) == [k \in 1..Len(in.verts) |-> in.verts[k].vals]

ExpectedTets(in) ==
    [k \in 1..Len(in.tets) |-> [j \in 1..4 |-> in.tets[k].vals[j] - 1]]

Accepted == npc \in {"converted", "loaded", "read", "indexerror"}

\* C1: for a neutral-format input (N, N lines "x y z", T, T lines
\* "id v0 v1 v2 v3") convertNeutral2Xml does not raise and returns the N
\* points in file order and the T tetrahedra in file order, each the four
\* vertex tokens v0..v3 of its line less one, the id token ignored.
C1_NeutralParse ==
    (npc # "start" /\ WellFormed(neutralIn)) =>
        /\ npc # "crashed"
        /\ fdolf_coords = ExpectedCoords(neutralIn)
        /\ idolf_tets = ExpectedTets(neutralIn)

C1_Witness ==
    /\ npc = "converted"
    /\ WellFormed(neutralIn)
    /\ Len(fdolf_coords) >= 2
    /\ fdolf_coords[1] # fdolf_coords[2]
    /\ Len(idolf_tets) >= 2
    /\ idolf_tets[1] # idolf_tets[2]

IndicesInRange ==
    \A t \in 1..Len(idolf_tets) : \A j \in 1..4 :
        idolf_tets[t][j] >= 0 /\ idolf_tets[t][j] < Len(fdolf_coords)

\* every vertex number of every tetrahedron line is one of 1..N
VerticesDeclared(in) ==
    \A k \in 1..Len(in.tets) : \A j \in 1..Len(in.tets[k].vals) :
        in.tets[k].vals[j] \in 1..Len(in.verts)

\* C2 as claimed: for every input the parser accepts without raising, each
\* of the four indices of every tetrahedron returned is >= 0 and below the
\* length of the coordinate list returned.
C2_Original == Accepted => IndicesInRange

\* C2 as amended: for every input the parser accepts whose tetrahedron lines
\* name only vertices 1..N, each index returned is >= 0 and below the length
\* of the coordinate list, and the lookups coords[cn[k]] of loadNeutral raise
\* nothing and find the vertex of that index.
C2_IndicesInRange ==
    (Accepted /\ VerticesDeclared(neutralIn)) =>
        /\ IndicesInRange
        /\ npc # "indexerror"
        /\ \A t \in 1..Len(edgePoints) : \A j \in 1..4 :
               edgePoints[t][j] = fdolf_coords[idolf_tets[t][j] + 1]

C2_Witness ==
    /\ npc = "loaded"
    /\ VerticesDeclared(neutralIn)
    /\ Len(edgePoints) >= 2
    /\ \E t \in 1..Len(idolf_tets) : \E j \in 1..4 :
           idolf_tets[t][j] = Len(fdolf_coords) - 1

ElemsDeclared(in) ==
    \A t \in 1..Len(in.elems) :
        /\ in.elems[t] \in ElemLines
        /\ \A j \in 1..3 :
               \E n \in 1..Len(in.nodes) : in.nodes[n].id = in.elems[t].ids[j]

\* C4 as claimed: the mesh loadGmesh builds has one point per node line and
\* one triangle per element line, and the three vertices of each triangle
\* are the nodes whose ids are the last three tokens of its element line.
C4_Original ==
    (gpc = "done" /\ ElemsDeclared(gmshIn)) =>
        /\ Len(sourcePoints) = Len(gmshIn.nodes)
        /\ Len(sourceTriangles) = Len(gmshIn.elems)
        /\ \A t \in 1..Len(sourceTriangles) : \A j \in 1..3 :
               /\ sourceTriangles[t][j] \in 0..(Len(gmshIn.nodes) - 1)
               /\ gmshIn.nodes[sourceTriangles[t][j] + 1].id
                      = gmshIn.elems[t].ids[j]

\* the first group of substrings, in order, one of which occurs in fl; 0
\* when none does
FirstMatch(fl, groups) ==
    IF \E i \in 1..Len(groups) : \E pat \in groups[i] : Contains(fl, pat)
    THEN CHOOSE i \in 1..Len(groups) :
             /\ \E pat \in groups[i] : Contains(fl, pat)
             /\ \A h \in 1..(i - 1) : \A pat \in groups[h] : ~Contains(fl, pat)
    ELSE 0

LoadGroups ==
    << {dot_xml}, {dot_neutral}, {dot_gmsh}, {dot_pcd}, {dot_tif, dot_slc},
       {dot_png, dot_jpg, dot_jpeg} >>

LoadNames ==
    <<"loadXml", "loadNeutral", "loadGmesh", "loadPCD", "loadVolume",
      "load2Dimage">>

\* C5: loadFile invokes exactly one loader, the first in the order .xml,
\* .neutral, .gmsh, .pcd, .tif/.slc, .png/.jpg/.jpeg whose substring occurs
\* anywhere in the lower-cased name, and loadPoly if and only if none occurs.
C5_Dispatch ==
    op = "loadFile" =>
        LET i == FirstMatch(Lower(filename), LoadGroups) IN
        /\ Len(called) = 1
        /\ called[1] = (IF i = 0 THEN "loadPoly" ELSE LoadNames[i])
        /\ (called[1] = "loadPoly") <=>
               (\A g \in 1..Len(LoadGroups) : \A pat \in LoadGroups[g] :
                    ~Contains(Lower(filename), pat))

C5_Witness ==
    /\ op = "loadFile"
    /\ called = <<"loadNeutral">>
    /\ Contains(Lower(filename), dot_gmsh)
    /\ ~EndsWith(Lower(filename), dot_neutral)

\* C6 as claimed: loadFile on a path that does not exist, on whichever
\* branch, and loadDir on a missing directory print an error and return
\* None or False or end the process; no reader is given the missing file.
C6_Original ==
    (dpc = "done" /\ op \in {"loadFile", "loadDir"} /\ ~exists) =>
        /\ printed # <<>>
        /\ result \in {"None", "False", "exit"}
        /\ handed = <<>>

DocumentedExts == <<dot_vtk, dot_ply, dot_obj, dot_stl, dot_byu, dot_vtp>>

DocumentedWriters ==
    <<"vtkPolyDataWriter", "vtkPLYWriter", "vtkOBJExporter", "vtkSTLWriter",
      "vtkBYUWriter", "vtkXMLPolyDataWriter">>

NoWriter ==
    /\ called = <<>>
    /\ handed = <<>>
    /\ printed = <<"Unavailable format in file">>
    /\ result = "exit"

WriteGroups ==
    << {dot_vtk}, {dot_ply}, {dot_obj}, {dot_stl}, {dot_byu, dot_g}, {dot_vtp} >>

C8_Original ==
    \A v \in Videos :
        vlast = [obj |-> v, op |-> "close"] =>
            /\ video[v].state = "closed"
            /\ video[v].saved
            /\ video[v].rate =
                   (IF video[v].duration # 0
                    THEN [num |-> Len(video[v].frames), den |-> video[v].duration]
                    ELSE [num |-> video[v].fps, den |-> 1])

\* C9 as claimed: print(counts=k) sets the count to k clamped to
\* [start, stop], for every k.
C9_Original ==
    (plast.op = "print" /\ plast.given) =>
        pb._counts = Clamp(plast.counts, pb.start, pb.stop)

\* every frame file a Video lists exists and holds the image it recorded
Intact(v) ==
    \A k \in 1..Len(video[v].frames) :
        /\ video[v].frames[k] \in DOMAIN vpvid
        /\ vpvid[video[v].frames[k]] = video[v].recorded[k]

\* C10 as claimed: whatever the interleaving of calls on two Video objects
\* and of loadXml calls, every frame file a Video lists exists and holds the
\* image that object recorded.
C10_Original == \A v \in Videos : Intact(v)

\* C10 as amended: the Video objects share the directory /tmp/vpvid. A call
\* on a Video object itself (addFrame, pause, close) and a loadXml call never
\* delete or overwrite a frame file that object lists: only the construction
\* of another Video and addFrame or pause on another Video do.
C10_OwnCallsKeepFrames ==
    [][\A v \in Videos :
          (Intact(v) /\ (vlast'.obj = v \/ vlast'.op = "loadXml")) => Intact(v)']_vars

C10_Witness ==
    /\ vlast.op = "loadXml"
    /\ video["B"].state = "open"
    /\ Len(video["A"].frames) >= 2
    /\ video["A"].recorded[1] # video["A"].recorded[2]
    /\ Intact("A")

\* the length of the bracketed part of a bar: from its first character to
\* its first "]", 0 when the bar does not open with "[" or never closes
BracketLen(bar) ==
    IF Len(bar) >= 1 /\ bar[1] = "[" /\ \E k \in 1..Len(bar) : bar[k] = "]"
    THEN CHOOSE k \in 1..Len(bar) :
             bar[k] = "]" /\ \A h \in 1..(k - 1) : bar[h] # "]"
    ELSE 0

\* C11 as claimed: for a ProgressBar constructed with start < stop, step > 0
\* and width >= 3, right after construction and after any sequence of
\* print() and print(counts=k) calls, start <= _counts <= stop,
\* 0 <= percent <= 100 and the bracketed part of bar is width characters
\* long.
C11_Original ==
    (ppc # "idle" /\ pb.start < pb.stop /\ pb.step > 0 /\ pb.width >= 3) =>
        /\ pb.start <= pb._counts /\ pb._counts <= pb.stop
        /\ 0 <= pb.percent /\ pb.percent <= 100
        /\ BracketLen(pb.bar) = pb.width

====
